---- MODULE Spec2Model ----
(***************************************************************************)
(* A model of the data-flow diagram builder: netdiag.py (to_code,          *)
(* Environment, System, DataFlow, Network and the two rendering            *)
(* strategies) and ils_dataflow.py (the three CSV readers and main).       *)
(*                                                                         *)
(* A Python str is a sequence of one-character strings; None is the        *)
(* one-element sequence NoneValue, which no str of the model equals.       *)
(* A Python dict is the sequence of its [key, value] entries in insertion  *)
(* order.                                                                  *)
(***************************************************************************)
EXTENDS Naturals, Sequences, FiniteSets, TLC

VARIABLES
    token,      \* to_code harness: the argument
    result,     \* to_code harness: the value returned
    applied,    \* to_code harness: whether to_code has returned
    driver,     \* who calls the Network: "main" (ils_dataflow.main) or "lib"
    pc,         \* main's position
    table,      \* rows the running reader has taken from its csv.DictReader
    records,    \* the list the running reader is building
    queue,      \* the rest of the list main's current for loop walks
    budget,     \* rows (main) or calls (lib) still allowed by the bounds
    network,    \* the Network object: environments, systems, dataflows
    raised,     \* the uncaught exception, or NoError
    out,        \* what the renderer returned, or NotRendered
    calls       \* history: the Network.add_* calls made so far, in order

vars == <<token, result, applied, driver, pc, table, records, queue, budget,
          network, raised, out, calls>>

(***************************************************************************)
(* Bounds                                                                  *)
(***************************************************************************)
MaxLen == 3
MaxRows == 3
MaxCalls == 4

(***************************************************************************)
(* Python values                                                           *)
(***************************************************************************)
NoneValue == <<"None">>

\* The characters of the model.  "U+0130" is LATIN CAPITAL LETTER I WITH DOT
\* ABOVE, whose lower-case form is the two characters "i" "U+0307";
\* "U+2102" is DOUBLE-STRUCK CAPITAL C, an upper-case letter with no
\* lower-case form.
Alphabet == {"A", "a", "i", " ", ".", "_", "-", "U+0130", "U+0307", "U+2102"}

RECURSIVE StringsOfLen(_)
StringsOfLen(n) ==
    IF n = 0 THEN {<<>>}
    ELSE {Append(s, c) : s \in StringsOfLen(n - 1), c \in Alphabet}

Strings == UNION {StringsOfLen(n) : n \in 0..MaxLen}

\* bool(x) of a str or None
Truthy(x) == x # NoneValue /\ x # <<>>

RECURSIVE Concat(_)
Concat(ss) == IF ss = <<>> THEN <<>> ELSE Head(ss) \o Concat(Tail(ss))

\* str.lower() of one character
LowerChar(c) ==
    CASE c = "A" -> <<"a">>
      [] c = "U+0130" -> <<"i", "U+0307">>
      [] OTHER -> <<c>>

\* str.lower()
lower(s) == Concat([i \in 1..Len(s) |-> LowerChar(s[i])])

\* str.replace(old, new) for a one-character old
replace(s, old, new) ==
    Concat([i \in 1..Len(s) |-> IF s[i] = old THEN new ELSE <<s[i]>>])

\* to_code of a str
to_code_skips_period(tok) == replace(lower(tok), " ", <<"_">>)
to_code(tok) == replace(replace(lower(tok), " ", <<"_">>), ".", <<"_">>)

\* to_code(None): None has no attribute lower
to_code_raises(tok) == tok = NoneValue

NoError == "no error"
AttributeError == "AttributeError"

(***************************************************************************)
(* The to_code harness                                                     *)
(***************************************************************************)
EmptyNetwork == [environments |-> <<>>, systems |-> <<>>, dataflows |-> <<>>]
NotRendered == [strategy |-> "none", body |-> <<>>]

InitToCode ==
    /\ token \in Strings
    /\ result = <<>>
    /\ applied = FALSE
    /\ driver = "to_code"
    /\ pc = "done"
    /\ table = <<>>
    /\ records = <<>>
    /\ queue = <<>>
    /\ budget = 0
    /\ network = EmptyNetwork
    /\ raised = NoError
    /\ out = NotRendered
    /\ calls = <<>>

ApplyToCode ==
    /\ driver = "to_code"
    /\ ~applied
    /\ result' = to_code(token)
    /\ applied' = TRUE
    /\ UNCHANGED <<token, driver, pc, table, records, queue, budget, network,
                   raised, out, calls>>

NextToCode == ApplyToCode

SpecToCode == InitToCode /\ [][NextToCode]_vars

(***************************************************************************)
(* netdiag.py: Environment, System, DataFlow, Network                      *)
(***************************************************************************)
\* Environment.__init__
Environment(code, name, host, oncampus) ==
    [code |-> code, name |-> name, host |-> host, oncampus |-> oncampus,
     systems |-> <<>>]

\* System.__init__
System(code, name, environment) ==
    [code |-> code, name |-> name, environment |-> environment]

\* DataFlow.__init__
DataFlow(source, target, mode) ==
    [source |-> source, target |-> target, mode |-> mode]

\* key in dict
DictHas(d, k) == \E i \in 1..Len(d) : d[i].key = k
\* the position of dict[key]
DictIndex(d, k) == CHOOSE i \in 1..Len(d) : d[i].key = k
\* dict[key]
DictGet(d, k) == d[DictIndex(d, k)].value
\* dict[key] = value: a present key keeps its place, a new key goes last
DictSet(d, k, v) ==
    IF DictHas(d, k)
    THEN [d EXCEPT ![DictIndex(d, k)].value = v]
    ELSE Append(d, [key |-> k, value |-> v])
\* dict.keys(), as a set
DictKeys(d) == {d[i].key : i \in 1..Len(d)}
\* dict.values(), in insertion order
DictValues(d) == [i \in 1..Len(d) |-> d[i].value]

\* Environment.add_system
Environment_add_system(env, system) ==
    [env EXCEPT !.systems = Append(@, system)]

\* Network.add_dataflow
add_dataflow(net, df) == [net EXCEPT !.dataflows = Append(@, df)]

\* Network.add_environment
add_environment_keeps_first(net, environment) ==
    IF DictHas(net.environments, environment.code)
    THEN net
    ELSE [net EXCEPT !.environments = DictSet(@, environment.code, environment)]
add_environment_adopts(net, environment) ==
    LET mine(e) == to_code(e.value.environment) = environment.code
        others(e) == ~mine(e)
    IN  [net EXCEPT
            !.environments =
                DictSet(@, environment.code,
                        [environment EXCEPT !.systems =
                            DictValues(SelectSeq(net.systems, mine))]),
            !.systems = SelectSeq(@, others)]
add_environment(net, environment) ==
    [net EXCEPT !.environments = DictSet(@, environment.code, environment)]

\* Network.add_system, for a system whose environment to_code accepts
add_system(net, system) ==
    LET env_code == to_code(system.environment) IN
    IF DictHas(net.environments, env_code)
    THEN [net EXCEPT !.environments =
             DictSet(@, env_code,
                     Environment_add_system(DictGet(@, env_code), system))]
    ELSE [net EXCEPT !.systems = DictSet(@, system.code, system)]

(***************************************************************************)
(* ils_dataflow.py: the readers' loop bodies                               *)
(***************************************************************************)
\* read_environments: what one row adds to the list
read_environments_row(row) ==
    IF Truthy(row.Environment)
    THEN <<Environment(to_code(row.Environment), row.Environment, row.Host,
                       Truthy(row.OnCampus))>>
    ELSE <<>>

\* read_systems: what one row adds to the list
read_systems_row_keeps_blank(row) ==
    <<System(to_code(row.System), row.System, row.Environment)>>
read_systems_row(row) ==
    IF Truthy(row.System)
    THEN <<System(to_code(row.System), row.System, row.Environment)>>
    ELSE <<>>

\* read_dataflows: what one row adds to the list
read_dataflows_row(row) ==
    IF Truthy(row.source) /\ Truthy(row.target)
    THEN <<DataFlow(to_code(row.source), to_code(row.target), row.mode)>>
    ELSE <<>>

(***************************************************************************)
(* The inputs: names, rows of the three tables, objects a library caller   *)
(* builds                                                                  *)
(***************************************************************************)
Name_A_a == <<"A", " ", "a">>       \* code a_a
Name_a_dot_a == <<"a", ".", "a">>   \* code a_a as well
Name_a_dash == <<"a", "-">>         \* code a-
Host_x == <<"a">>
Mode_r == <<"r">>
Mode_w == <<"w">>
Mode_R == <<"R">>
Name_i == <<"i">>                   \* code i: no system has it

EnvironmentRows ==
    [Environment : {Name_A_a, Name_a_dot_a, <<>>}, Host : {Host_x},
     OnCampus : {<<>>, <<"x">>}]

\* a short row leaves Environment None (csv.DictReader's restval)
SystemRows ==
    [System : {Name_A_a, Name_a_dash, <<>>},
     Environment : {Name_A_a, Name_a_dash, <<>>, NoneValue}]

DataFlowRows ==
    [source : {Name_A_a, <<>>}, target : {Name_a_dash, <<>>},
     mode : {Mode_r, Mode_w, Mode_R}]

LibEnvironments ==
    {Environment(to_code(Name_A_a), Name_A_a, Host_x, TRUE),
     Environment(to_code(Name_a_dot_a), Name_a_dot_a, Host_x, FALSE)}

LibSystems ==
    {System(to_code(n), n, e) :
        n \in {Name_A_a, Name_a_dash}, e \in {Name_A_a, <<>>, NoneValue}}

LibDataFlows ==
    {DataFlow(Name_A_a, Name_i, m) : m \in {Mode_r, <<>>, NoneValue}}

(***************************************************************************)
(* netdiag.py: the two rendering strategies.  A rendering is the sequence  *)
(* of statements in the order they are written (write_dot) or added to the *)
(* graph object's body (digraph2).  An identifier or attribute value is a  *)
(* token: its text, and whether it is written inside double quotes.        *)
(***************************************************************************)
Bare(text) == [text |-> text, quoted |-> FALSE]
DQuoted(text) == [text |-> text, quoted |-> TRUE]

str_cluster_ == <<"c", "l", "u", "s", "t", "e", "r", "_">>
str_b == <<"b">>
str_box == <<"b", "o", "x">>
str_dashed == <<"d", "a", "s", "h", "e", "d">>
str_solid == <<"s", "o", "l", "i", "d">>
str_maroon == <<"m", "a", "r", "o", "o", "n">>
str_newline == <<"\\", "n">>

\* [a-zA-Z_]: the characters the graph library writes without quotes
WordChars ==
    {"A", "R", "_", "a", "b", "c", "d", "e", "h", "i", "l", "m", "n", "o", "r",
     "s", "t", "u", "w", "x"}

\* the graph library's quote(): a name that is not [a-zA-Z_][a-zA-Z0-9_]* is
\* written inside double quotes (the model has no digits and spells no DOT
\* keyword)
quote(text) ==
    IF text # <<>> /\ \A i \in 1..Len(text) : text[i] \in WordChars
    THEN Bare(text)
    ELSE DQuoted(text)

\* the label of a System's node
System_label(system) == replace(system.name, " ", str_newline)

\* System.to_dot: code [label="...", shape=box];
System_to_dot(system) ==
    [kind |-> "node", id |-> Bare(system.code),
     label |-> DQuoted(System_label(system)), shape |-> Bare(str_box)]

\* System.add_to_graph: dot.node(code, label, shape=shape)
System_add_to_graph(system) ==
    [kind |-> "node", id |-> quote(system.code),
     label |-> quote(System_label(system)), shape |-> quote(str_box)]

\* Environment.to_dot: the lines of the subgraph block
Environment_to_dot(env) ==
    [kind |-> "cluster",
     name |-> Bare(str_cluster_ \o env.code),
     attrs |-> <<<<"label", DQuoted(env.name)>>,
                 <<"labelloc", DQuoted(str_b)>>,
                 <<"style", Bare(str_dashed)>>>>
               \o (IF env.oncampus
                   THEN <<<<"color", DQuoted(str_maroon)>>,
                          <<"fontcolor", DQuoted(str_maroon)>>>>
                   ELSE <<>>),
     body |-> [i \in 1..Len(env.systems) |-> System_to_dot(env.systems[i])]]

\* Environment.add_to_graph: cluster_attr
cluster_attr(env) ==
    [label |-> env.name, labelloc |-> str_b, style |-> str_dashed]
    @@ (IF env.oncampus
        THEN [color |-> str_maroon, fontcolor |-> str_maroon]
        ELSE <<>>)

\* Environment.add_to_graph: dot.subgraph(name, graph_attr) and its nodes
Environment_add_to_graph(env) ==
    [kind |-> "cluster",
     name |-> quote(str_cluster_ \o env.code),
     attrs |-> [k \in DOMAIN cluster_attr(env) |-> quote(cluster_attr(env)[k])],
     body |-> [i \in 1..Len(env.systems) |->
                  System_add_to_graph(env.systems[i])]]

\* the edge style of a DataFlow
DataFlow_style_always_solid(df) == str_solid
DataFlow_style(df) == IF df.mode = Mode_r THEN str_dashed ELSE str_solid

\* DataFlow.to_dot: s -> t [style="..."]
DataFlow_to_dot(df) ==
    [kind |-> "edge", tail |-> Bare(to_code(df.source)),
     head |-> Bare(to_code(df.target)), style |-> DQuoted(DataFlow_style(df))]

\* DataFlow.add_to_graph: dot.edge(s, t, style=style)
DataFlow_add_to_graph(df) ==
    [kind |-> "edge", tail |-> quote(to_code(df.source)),
     head |-> quote(to_code(df.target)), style |-> quote(DataFlow_style(df))]

\* Network.write_dot
write_dot(net) ==
    LET environments == DictValues(net.environments)
        systems == DictValues(net.systems)
    IN  [i \in 1..Len(environments) |-> Environment_to_dot(environments[i])]
        \o [i \in 1..Len(systems) |-> System_to_dot(systems[i])]
        \o [i \in 1..Len(net.dataflows) |-> DataFlow_to_dot(net.dataflows[i])]

\* Network.digraph2
digraph2_edges_first(net) ==
    LET environments == DictValues(net.environments)
        systems == DictValues(net.systems)
    IN  [i \in 1..Len(net.dataflows) |->
            DataFlow_add_to_graph(net.dataflows[i])]
        \o [i \in 1..Len(environments) |->
               Environment_add_to_graph(environments[i])]
        \o [i \in 1..Len(systems) |-> System_add_to_graph(systems[i])]
digraph2(net) ==
    LET environments == DictValues(net.environments)
        systems == DictValues(net.systems)
    IN  [i \in 1..Len(environments) |->
            Environment_add_to_graph(environments[i])]
        \o [i \in 1..Len(systems) |-> System_add_to_graph(systems[i])]
        \o [i \in 1..Len(net.dataflows) |->
               DataFlow_add_to_graph(net.dataflows[i])]

(***************************************************************************)
(* The graph a rendering describes: how DOT reads each token.  A token in  *)
(* double quotes is its text; a token written bare is its text only when   *)
(* the text is a DOT identifier (letters, underscores and characters above *)
(* ASCII), and is a syntax error otherwise.                                *)
(***************************************************************************)
SyntaxError == <<"syntax error">>

DotIdChars == WordChars \cup {"U+0130", "U+0307", "U+2102"}

Reads(tok) ==
    IF tok.quoted \/ (tok.text # <<>> /\ \A i \in 1..Len(tok.text) :
                                           tok.text[i] \in DotIdChars)
    THEN tok.text
    ELSE SyntaxError

NodeRead(node) ==
    [kind |-> "node", id |-> Reads(node.id), label |-> Reads(node.label),
     shape |-> Reads(node.shape)]

EdgeRead(edge) ==
    [kind |-> "edge", tail |-> Reads(edge.tail), head |-> Reads(edge.head),
     style |-> Reads(edge.style)]

\* the attributes of a cluster as write_dot writes them: statements in a row
StatementsRead(attrs) ==
    [k \in {attrs[i][1] : i \in 1..Len(attrs)} |->
        Reads((CHOOSE a \in {attrs[i] : i \in 1..Len(attrs)} : a[1] = k)[2])]

\* the attributes of a cluster as digraph2 passes them: a dict
DictRead(attrs) == [k \in DOMAIN attrs |-> Reads(attrs[k])]

\* the graph the text of write_dot describes
DescribedByText(body) ==
    [i \in 1..Len(body) |->
        CASE body[i].kind = "cluster" ->
                [kind |-> "cluster", name |-> Reads(body[i].name),
                 attrs |-> StatementsRead(body[i].attrs),
                 body |-> [j \in 1..Len(body[i].body) |->
                              NodeRead(body[i].body[j])]]
          [] body[i].kind = "node" -> NodeRead(body[i])
          [] OTHER -> EdgeRead(body[i])]

\* the graph the object of digraph2 describes
DescribedByObject(body) ==
    [i \in 1..Len(body) |->
        CASE body[i].kind = "cluster" ->
                [kind |-> "cluster", name |-> Reads(body[i].name),
                 attrs |-> DictRead(body[i].attrs),
                 body |-> [j \in 1..Len(body[i].body) |->
                              NodeRead(body[i].body[j])]]
          [] body[i].kind = "node" -> NodeRead(body[i])
          [] OTHER -> EdgeRead(body[i])]

(***************************************************************************)
(* The program: ils_dataflow.main, and a library caller of netdiag         *)
(***************************************************************************)
Init ==
    /\ token = <<>>
    /\ result = <<>>
    /\ applied = FALSE
    /\ driver \in {"main", "lib"}
    /\ pc = IF driver = "main" THEN "read_environments" ELSE "lib"
    /\ table = <<>>
    /\ records = <<>>
    /\ queue = <<>>
    /\ budget = IF driver = "main" THEN MaxRows ELSE MaxCalls
    /\ network = EmptyNetwork
    /\ raised = NoError
    /\ out = NotRendered
    /\ calls = <<>>

Call(op, arg) == [op |-> op, arg |-> arg]

\* network.add_environment(e)
CallAddEnvironment(e) ==
    /\ network' = add_environment(network, e)
    /\ calls' = Append(calls, Call("add_environment", e))
    /\ UNCHANGED raised

\* network.add_system(s): to_code(None) raises and nothing is filed
CallAddSystem(s) ==
    /\ calls' = Append(calls, Call("add_system", s))
    /\ IF to_code_raises(s.environment)
       THEN raised' = AttributeError /\ UNCHANGED network
       ELSE network' = add_system(network, s) /\ UNCHANGED raised

\* network.add_dataflow(df)
CallAddDataflow(df) ==
    /\ network' = add_dataflow(network, df)
    /\ calls' = Append(calls, Call("add_dataflow", df))
    /\ UNCHANGED raised

Running == raised = NoError

\* read_environments: one turn of the loop over the rows
ReadEnvironmentsRow ==
    /\ pc = "read_environments" /\ budget > 0
    /\ \E row \in EnvironmentRows :
         /\ table' = Append(table, row)
         /\ records' = records \o read_environments_row(row)
    /\ budget' = budget - 1
    /\ UNCHANGED <<token, result, applied, driver, pc, queue, network, raised,
                   out, calls>>

\* read_environments returns; main's first for loop starts
ReadEnvironmentsReturn ==
    /\ pc = "read_environments"
    /\ pc' = "add_environments"
    /\ queue' = records
    /\ UNCHANGED <<token, result, applied, driver, table, records, budget,
                   network, raised, out, calls>>

\* main: for e in ...: network.add_environment(e)
MainAddEnvironment ==
    /\ pc = "add_environments" /\ queue # <<>>
    /\ CallAddEnvironment(Head(queue))
    /\ queue' = Tail(queue)
    /\ UNCHANGED <<token, result, applied, driver, pc, table, records, budget,
                   out>>

\* main's first loop ends; read_systems opens its file
MainReadSystems ==
    /\ pc = "add_environments" /\ queue = <<>>
    /\ pc' = "read_systems"
    /\ table' = <<>>
    /\ records' = <<>>
    /\ UNCHANGED <<token, result, applied, driver, queue, budget, network,
                   raised, out, calls>>

\* read_systems: one turn of the loop over the rows
ReadSystemsRow ==
    /\ pc = "read_systems" /\ budget > 0
    /\ \E row \in SystemRows :
         /\ table' = Append(table, row)
         /\ records' = records \o read_systems_row(row)
    /\ budget' = budget - 1
    /\ UNCHANGED <<token, result, applied, driver, pc, queue, network, raised,
                   out, calls>>

\* read_systems returns; main's second for loop starts
ReadSystemsReturn ==
    /\ pc = "read_systems"
    /\ pc' = "add_systems"
    /\ queue' = records
    /\ UNCHANGED <<token, result, applied, driver, table, records, budget,
                   network, raised, out, calls>>

\* main: for s in ...: network.add_system(s); an exception ends the program
MainAddSystem ==
    /\ pc = "add_systems" /\ queue # <<>>
    /\ CallAddSystem(Head(queue))
    /\ queue' = Tail(queue)
    /\ pc' = IF to_code_raises(Head(queue).environment) THEN "aborted" ELSE pc
    /\ UNCHANGED <<token, result, applied, driver, table, records, budget, out>>

\* main's second loop ends; read_dataflows opens its file
MainReadDataflows ==
    /\ pc = "add_systems" /\ queue = <<>>
    /\ pc' = "read_dataflows"
    /\ table' = <<>>
    /\ records' = <<>>
    /\ UNCHANGED <<token, result, applied, driver, queue, budget, network,
                   raised, out, calls>>

\* read_dataflows: one turn of the loop over the rows
ReadDataflowsRow ==
    /\ pc = "read_dataflows" /\ budget > 0
    /\ \E row \in DataFlowRows :
         /\ table' = Append(table, row)
         /\ records' = records \o read_dataflows_row(row)
    /\ budget' = budget - 1
    /\ UNCHANGED <<token, result, applied, driver, pc, queue, network, raised,
                   out, calls>>

\* read_dataflows returns; main's third for loop starts
ReadDataflowsReturn ==
    /\ pc = "read_dataflows"
    /\ pc' = "add_dataflows"
    /\ queue' = records
    /\ UNCHANGED <<token, result, applied, driver, table, records, budget,
                   network, raised, out, calls>>

\* main: for df in ...: network.add_dataflow(df)
MainAddDataflow ==
    /\ pc = "add_dataflows" /\ queue # <<>>
    /\ CallAddDataflow(Head(queue))
    /\ queue' = Tail(queue)
    /\ UNCHANGED <<token, result, applied, driver, pc, table, records, budget,
                   out>>

\* main: dot = network.digraph2()
MainDigraph2 ==
    /\ pc = "add_dataflows" /\ queue = <<>>
    /\ out' = [strategy |-> "digraph2", body |-> digraph2(network)]
    /\ pc' = "done"
    /\ UNCHANGED <<token, result, applied, driver, table, records, queue,
                   budget, network, raised, calls>>

\* A library caller makes the Network's calls in any order, stops at an
\* exception, and renders last.
LibReady == pc = "lib" /\ Running /\ out = NotRendered

LibAddEnvironment ==
    /\ LibReady /\ budget > 0
    /\ \E e \in LibEnvironments : CallAddEnvironment(e)
    /\ budget' = budget - 1
    /\ UNCHANGED <<token, result, applied, driver, pc, table, records, queue,
                   out>>

LibAddSystem ==
    /\ LibReady /\ budget > 0
    /\ \E s \in LibSystems : CallAddSystem(s)
    /\ budget' = budget - 1
    /\ UNCHANGED <<token, result, applied, driver, pc, table, records, queue,
                   out>>

LibAddDataflow ==
    /\ LibReady /\ budget > 0
    /\ \E df \in LibDataFlows : CallAddDataflow(df)
    /\ budget' = budget - 1
    /\ UNCHANGED <<token, result, applied, driver, pc, table, records, queue,
                   out>>

LibWriteDot ==
    /\ LibReady
    /\ out' = [strategy |-> "write_dot", body |-> write_dot(network)]
    /\ UNCHANGED <<token, result, applied, driver, pc, table, records, queue,
                   budget, network, raised, calls>>

LibDigraph2 ==
    /\ LibReady
    /\ out' = [strategy |-> "digraph2", body |-> digraph2(network)]
    /\ UNCHANGED <<token, result, applied, driver, pc, table, records, queue,
                   budget, network, raised, calls>>

Next ==
    \/ ReadEnvironmentsRow
    \/ ReadEnvironmentsReturn
    \/ MainAddEnvironment
    \/ MainReadSystems
    \/ ReadSystemsRow
    \/ ReadSystemsReturn
    \/ MainAddSystem
    \/ MainReadDataflows
    \/ ReadDataflowsRow
    \/ ReadDataflowsReturn
    \/ MainAddDataflow
    \/ MainDigraph2
    \/ LibAddEnvironment
    \/ LibAddSystem
    \/ LibAddDataflow
    \/ LibWriteDot
    \/ LibDigraph2

Spec == Init /\ [][Next]_vars

(***************************************************************************)
(* C3: to_code                                                             *)
(***************************************************************************)
\* str.isupper() of one character
UpperCase == {"A", "U+0130", "U+2102"}
\* the characters str.lower() changes
HasLowerForm == {"A", "U+0130"}

\* how many characters of s[1..n] are U+0130
RECURSIVE Expanding(_, _)
Expanding(s, n) ==
    IF n = 0 THEN 0
    ELSE Expanding(s, n - 1) + (IF s[n] = "U+0130" THEN 1 ELSE 0)

\* C3 as claimed: to_code returns the name with no space, no period and no
\* upper-case letter left, every space and period replaced by an underscore,
\* every other character unchanged, and the length unchanged.
C3_AsClaimed ==
    applied =>
        /\ \A i \in 1..Len(result) : result[i] \notin {" ", "."} \cup UpperCase
        /\ Len(result) = Len(token)
        /\ \A i \in 1..Len(token) :
              /\ token[i] \in {" ", "."} => result[i] = "_"
              /\ token[i] \notin {" ", "."} \cup UpperCase => result[i] = token[i]

\* C3 as amended: to_code returns the name lower-cased by str.lower with every
\* space and every period replaced by an underscore: no space or period is
\* left, no letter that has a lower-case form is left in upper case, a
\* character that is not a space, a period or a letter with a lower-case form
\* is unchanged, and the length grows by one for each U+0130 in the name (its
\* lower-case form is two characters) and is otherwise unchanged.
C3_ToCode ==
    applied =>
        /\ \A i \in 1..Len(result) : result[i] \notin {" ", "."} \cup HasLowerForm
        /\ Len(result) = Len(token) + Expanding(token, Len(token))
        /\ \A i \in 1..Len(token) :
              LET p == i + Expanding(token, i - 1) IN
              /\ token[i] \in {" ", "."} => result[p] = "_"
              /\ token[i] = "A" => result[p] = "a"
              /\ token[i] = "U+0130" => result[p] = "i" /\ result[p + 1] = "U+0307"
              /\ token[i] \notin {" ", "."} \cup HasLowerForm => result[p] = token[i]

\* a name with an expanding upper-case letter, a space and a period
C3_Witness ==
    /\ applied
    /\ token = <<"U+0130", " ", ".">>
    /\ result = <<"i", "U+0307", "_", "_">>

(***************************************************************************)
(* The history of calls                                                    *)
(***************************************************************************)
IsAddEnvironment(c) == c.op = "add_environment"
IsAddSystem(c) == c.op = "add_system"
IsAddDataflow(c) == c.op = "add_dataflow"

Args(cs) == [i \in 1..Len(cs) |-> cs[i].arg]
EnvironmentsAdded == Args(SelectSeq(calls, IsAddEnvironment))
DataflowsAdded == Args(SelectSeq(calls, IsAddDataflow))

\* the last call add_environment made with this code (0: none)
LastRegistration(code) ==
    LET ks == {k \in 1..Len(calls) :
                 IsAddEnvironment(calls[k]) /\ calls[k].arg.code = code}
    IN  IF ks = {} THEN 0 ELSE CHOOSE k \in ks : \A j \in ks : j <= k

\* the calls with their positions
Indexed == [k \in 1..Len(calls) |-> [k |-> k, call |-> calls[k]]]

\* add_system was called with an environment name to_code accepts
FilesSystem(c) == IsAddSystem(c) /\ c.arg.environment # NoneValue

\* the systems added under this environment code since it was last registered
MembersOf(code) ==
    LET reg == LastRegistration(code)
        member(x) == /\ reg > 0 /\ x.k > reg
                     /\ FilesSystem(x.call)
                     /\ to_code(x.call.arg.environment) = code
        xs == SelectSeq(Indexed, member)
    IN  [i \in 1..Len(xs) |-> xs[i].call.arg]

\* the codes of the systems added while their environment was not registered
TopLevelCodes ==
    {calls[k].arg.code : k \in
        {k \in 1..Len(calls) :
            /\ FilesSystem(calls[k])
            /\ \A j \in 1..(k - 1) :
                  ~(IsAddEnvironment(calls[j])
                    /\ calls[j].arg.code = to_code(calls[k].arg.environment))}}

\* every add_environment call came before every add_system call
EnvironmentsFirst ==
    \A j, k \in 1..Len(calls) :
        (IsAddSystem(calls[j]) /\ IsAddEnvironment(calls[k])) => k < j

Reading == pc \in {"read_environments", "add_environments", "read_systems",
                   "add_systems", "read_dataflows", "add_dataflows"}

\* the row is blank on the field its reader requires
BlankRow(row) ==
    CASE pc \in {"read_environments", "add_environments"} -> row.Environment \in {<<>>, NoneValue}
      [] pc \in {"read_systems", "add_systems"} -> row.System \in {<<>>, NoneValue}
      [] OTHER -> row.source \in {<<>>, NoneValue} \/ row.target \in {<<>>, NoneValue}
FilledRow(row) == ~BlankRow(row)

\* the record is the one its reader builds of the row
RecordOf(rec, row) ==
    CASE pc \in {"read_environments", "add_environments"} ->
            rec.name = row.Environment /\ rec.host = row.Host
      [] pc \in {"read_systems", "add_systems"} ->
            rec.name = row.System /\ rec.environment = row.Environment
      [] OTHER -> rec.mode = row.mode

\* C4: while a reader runs and when it has returned, its list holds exactly one
\* record per row read that is not blank on the required field, in row order
\* (N rows, k of them blank: N - k records), and no error was raised by reading.
C4_Readers ==
    (driver = "main" /\ Reading) =>
        LET filled == SelectSeq(table, FilledRow)
            k == Cardinality({i \in 1..Len(table) : BlankRow(table[i])})
        IN  /\ Len(records) = Len(table) - k
            /\ Len(records) = Len(filled)
            /\ \A j \in 1..Len(records) : RecordOf(records[j], filled[j])
            /\ (pc \in {"read_environments", "read_systems", "read_dataflows"}
                  => raised = NoError)

\* read_systems has returned two records of three rows, the second row blank
C4_Witness ==
    /\ pc = "add_systems"
    /\ Len(table) = 3 /\ Len(records) = 2
    /\ table[2].System = <<>>
    /\ table[1].System = Name_A_a /\ table[3].System = Name_a_dash
    /\ queue = records

(***************************************************************************)
(* C9: the style of an edge                                                *)
(***************************************************************************)
Rendered == out.strategy # "none"
Edges(body) == SelectSeq(body, LAMBDA st : st.kind = "edge")

\* C9: in what either renderer returns there is one edge per data flow added,
\* and the edge of a flow is dashed when the flow's mode is "r" and solid for
\* any other mode ("w", "R", empty, None); no flow is dropped for its mode.
C9_EdgeStyle ==
    Rendered =>
        LET edges == Edges(out.body) IN
        /\ Len(edges) = Len(DataflowsAdded)
        /\ \A i \in 1..Len(edges) :
              /\ DataflowsAdded[i].mode = <<"r">> => edges[i].style.text = str_dashed
              /\ DataflowsAdded[i].mode # <<"r">> => edges[i].style.text = str_solid

\* a rendering with a dashed edge of a mode "r" flow and a solid edge of a flow
\* whose mode is None
C9_Witness ==
    /\ Rendered
    /\ Len(DataflowsAdded) = 2
    /\ DataflowsAdded[1].mode = <<"r">> /\ DataflowsAdded[2].mode = NoneValue
    /\ Edges(out.body)[1].style.text = str_dashed
    /\ Edges(out.body)[2].style.text = str_solid

(***************************************************************************)
(* C8: a system with no environment                                        *)
(***************************************************************************)
\* C8 as claimed: add_system of a system whose environment is None or blank
\* raises no error and files the system in the top-level map under its code,
\* and in no environment's list.
C8_NoEnvironment ==
    \A k \in 1..Len(calls) :
        (IsAddSystem(calls[k]) /\ calls[k].arg.environment \in {NoneValue, <<>>}) =>
            /\ raised = NoError
            /\ DictHas(network.systems, calls[k].arg.code)
            /\ \A i \in 1..Len(network.environments) :
                  \A j \in 1..Len(network.environments[i].value.systems) :
                      network.environments[i].value.systems[j] # calls[k].arg

(***************************************************************************)
(* C5: the order of the rendering                                          *)
(***************************************************************************)
Codes(systems) == [i \in 1..Len(systems) |-> systems[i].code]
Ids(nodes) == [i \in 1..Len(nodes) |-> nodes[i].id.text]

InCluster(body, env_code, id) ==
    \E i \in 1..Len(body) :
        /\ body[i].kind = "cluster"
        /\ body[i].name.text = str_cluster_ \o env_code
        /\ \E j \in 1..Len(body[i].body) : body[i].body[j].id.text = id

\* the rendering has a top-level node with this identifier
AtTopLevel(body, id) ==
    \E i \in 1..Len(body) : body[i].kind = "node" /\ body[i].id.text = id

\* C1 as claimed: after add_environment calls followed by add_system calls, a
\* system whose environment name normalizes to a registered code is rendered
\* as a node in that environment's cluster and not in the top-level node list,
\* and a system whose environment name matches no registered environment is
\* rendered in the top-level node list and in no cluster.
C1_Placement ==
    (Rendered /\ EnvironmentsFirst) =>
        \A k \in 1..Len(calls) :
            FilesSystem(calls[k]) =>
                LET sys == calls[k].arg
                    env_code == to_code(sys.environment)
                IN  IF DictHas(network.environments, env_code)
                    THEN /\ InCluster(out.body, env_code, sys.code)
                         /\ ~AtTopLevel(out.body, sys.code)
                    ELSE /\ AtTopLevel(out.body, sys.code)
                         /\ \A c \in DictKeys(network.environments) :
                               ~InCluster(out.body, c, sys.code)

\* the environments whose list holds a system with this code
EnvironmentsHolding(code) ==
    {i \in 1..Len(network.environments) :
        \E j \in 1..Len(network.environments[i].value.systems) :
            network.environments[i].value.systems[j].code = code}

\* C2 as claimed: after add_environment calls followed by add_system calls,
\* each system added, identified by its code, is in exactly one place: the list
\* of one environment or the top-level map, never both and never two lists.
C2_OnePlace ==
    EnvironmentsFirst =>
        \A k \in 1..Len(calls) :
            FilesSystem(calls[k]) =>
                LET code == calls[k].arg.code IN
                Cardinality(EnvironmentsHolding(code))
                    + (IF DictHas(network.systems, code) THEN 1 ELSE 0) = 1

(***************************************************************************)
(* C6: the two strategies                                                  *)
(***************************************************************************)
\* C6 as claimed: for every Network the add operations reach, write_dot and
\* digraph2 describe the same graph: the same clusters with the same
\* identifiers and attributes, the same nodes with the same identifier, label
\* and shape in the same places, and the same edges with the same endpoints and
\* style.
C6_SameGraph ==
    Running =>
        DescribedByText(write_dot(network)) = DescribedByObject(digraph2(network))

(***************************************************************************)
(* C10: placement is decided once                                          *)
(***************************************************************************)
Rank(op) ==
    CASE op = "add_environment" -> 1 [] op = "add_system" -> 2 [] OTHER -> 3

\* main adds every environment before any system and every system before any
\* data flow
MainOrder ==
    driver = "main" =>
        \A j, k \in 1..Len(calls) :
            j < k => Rank(calls[j].op) <= Rank(calls[k].op)

\* a step moves no system: what is top-level stays top-level, registering an
\* environment leaves the top-level map as it is and gives the environment an
\* empty list, a system whose environment is not registered goes to the
\* top-level map only, a system whose environment is registered goes to that
\* list only, and no other step touches either
NoMove ==
    LET made == calls' # calls
        call == calls'[Len(calls')]
    IN  /\ DictKeys(network.systems) \subseteq DictKeys(network'.systems)
        /\ ~made => network' = network
        /\ (made /\ IsAddEnvironment(call)) =>
              /\ network'.systems = network.systems
              /\ DictGet(network'.environments, call.arg.code).systems = <<>>
              /\ \A c \in DictKeys(network.environments) \ {call.arg.code} :
                    /\ DictHas(network'.environments, c)
                    /\ DictGet(network'.environments, c)
                         = DictGet(network.environments, c)
        /\ (made /\ IsAddDataflow(call)) =>
              /\ network'.systems = network.systems
              /\ network'.environments = network.environments
        /\ (made /\ IsAddSystem(call) /\ ~FilesSystem(call)) => network' = network
        /\ (made /\ FilesSystem(call)) =>
              LET env_code == to_code(call.arg.environment) IN
              IF DictHas(network.environments, env_code)
              THEN /\ network'.systems = network.systems
                   /\ DictKeys(network'.environments) = DictKeys(network.environments)
                   /\ \A c \in DictKeys(network.environments) :
                         DictGet(network'.environments, c).systems =
                            IF c = env_code
                            THEN Append(DictGet(network.environments, c).systems,
                                        call.arg)
                            ELSE DictGet(network.environments, c).systems
              ELSE /\ network'.environments = network.environments
                   /\ DictHas(network'.systems, call.arg.code)
                   /\ DictGet(network'.systems, call.arg.code) = call.arg

\* C10: main adds environments, then systems, then data flows; and placement
\* is decided by add_system from the environments registered at that call: no
\* later step moves a system between the top-level map and a list, so a system
\* added before its environment is registered stays top-level when
\* add_environment registers that environment.
C10_PlacementFixed == [](MainOrder) /\ [][NoMove]_vars

\* a system was added under an environment name not yet registered, the
\* environment was registered after it, and the system is still top-level and
\* not in the environment's list
C10_Witness ==
    /\ Len(calls) = 2
    /\ FilesSystem(calls[1]) /\ IsAddEnvironment(calls[2])
    /\ to_code(calls[1].arg.environment) = calls[2].arg.code
    /\ DictHas(network.systems, calls[1].arg.code)
    /\ DictGet(network.environments, calls[2].arg.code).systems = <<>>

====
